---- MODULE Spec2Model ----
(***************************************************************************)
(* Model of the retrieval-and-ranking pipeline of query_cli.py:            *)
(* setup_weaviate_client, the ProviderCache (get_model,                    *)
(* get_reranker_model), query_constitution and the interactive loop of     *)
(* main.  Strings the code assembles are sequences of text pieces; error   *)
(* texts the code searches are sequences of characters.                    *)
(***************************************************************************)
EXTENDS Integers, Sequences, FiniteSets, TLC

VARIABLES
    pc,                     \* where main is: "start", "loop", "exited", "terminated"
    exit,                   \* how the process ended, "none" while it runs
    config,                 \* what setup_weaviate_client read and saw
    args,                   \* args.limit and args.local
    query,                  \* main's variable query
    matches,                \* the store's ranked matches for the session's question
    rerankScores,           \* the reranker's score of each match (times ten)
    model_cache,            \* _model_cache
    reranker_model_cache,   \* _reranker_model_cache
    writes,                 \* assignments made to each cache slot
    queriesDone,            \* queries the loop has run
    inputsRead,             \* input("> ") calls made
    composerCalls,          \* chat.completions.create calls of the session
    failedQueries,          \* queries of the session that raised
    last                    \* what the last query did

vars == << pc, exit, config, args, query, matches, rerankScores, model_cache,
           reranker_model_cache, writes, queriesDone, inputsRead,
           composerCalls, failedQueries, last >>

-----------------------------------------------------------------------------
(* Bounds *)

MaxQueries == 2
MaxLimit == 3

-----------------------------------------------------------------------------
(* Python values *)

None == "<None>"
Missing == "<missing key>"
NoInstance == << >>

Truthy(x) == x # None /\ x # ""
Get(properties, key, default) ==
    IF properties[key] = Missing THEN default ELSE properties[key]
Str(x) == IF x = None THEN "None" ELSE x
Or(x, default) == IF Truthy(x) THEN x ELSE default
Min(a, b) == IF a <= b THEN a ELSE b

\* sub in s, on sequences of characters
Contains(s, sub) ==
    \E i \in 1..(Len(s) - Len(sub) + 1) : SubSeq(s, i, i + Len(sub) - 1) = sub

-----------------------------------------------------------------------------
(* Passage records *)

Titles == { Missing, None, "ROC Constitution" }
Chapters == { None, "", "Chapter 2: Rights" }
Sections == { None, "", "Chapter 2: Rights", "Section 1" }
Articles == { None, "", "8" }

AllRecords ==
    [ id : {"candidate1"}, title : Titles, chapter : Chapters,
      section : Sections, article : Articles, content : {"text 1"} ]

Pool ==
    << [ id |-> "candidate1", title |-> "ROC Constitution",
         chapter |-> "Chapter 2: Rights", section |-> "Chapter 2: Rights",
         article |-> "8", content |-> "text 1" ],
       [ id |-> "candidate2", title |-> "ROC Constitution",
         chapter |-> "Chapter 2: Rights", section |-> "Section 1",
         article |-> "8", content |-> "text 2" ],
       [ id |-> "candidate3", title |-> "ROC Constitution",
         chapter |-> None, section |-> None,
         article |-> "8", content |-> "text 3" ] >>

Scores == { 2, 5, 9 }

\* what the store and the reranker hold for the session's question
Stores ==
    UNION { { [ m |-> SubSeq(Pool, 1, n), s |-> sc ] : sc \in [1..n -> Scores] } :
            n \in 0..Len(Pool) }
    \cup { [ m |-> << r >>, s |-> << 5 >> ] : r \in AllRecords }

Inputs == { "What branch handles judicial review?", "", "EXIT", "q" }
Lower(s) == IF s = "EXIT" THEN "exit" ELSE s
IsExit(q) == Lower(q) \in { "exit", "quit", "q" }

-----------------------------------------------------------------------------
(* Answer Composer failures: str(api_error) *)

StatusMessage(code, body) ==
    << "E", "r", "r", "o", "r", " ", "c", "o", "d", "e", ":", " " >>
    \o code \o << " ", "-", " " >> \o body

insufficient_quota ==
    << "i", "n", "s", "u", "f", "f", "i", "c", "i", "e", "n", "t", "_",
       "q", "u", "o", "t", "a" >>
rate_limit_exceeded ==
    << "r", "a", "t", "e", "_", "l", "i", "m", "i", "t", "_",
       "e", "x", "c", "e", "e", "d", "e", "d" >>
server_error ==
    << "s", "e", "r", "v", "e", "r", "_", "e", "r", "r", "o", "r" >>
context_length ==
    << "r", "e", "s", "u", "l", "t", "e", "d", " ", "i", "n", " ",
       "4", "2", "9", "0", " ", "t", "o", "k", "e", "n", "s" >>
connection_error ==
    << "C", "o", "n", "n", "e", "c", "t", "i", "o", "n", " ",
       "e", "r", "r", "o", "r", "." >>

ComposerErrors ==
    { [ name |-> "RateLimitError: insufficient_quota", status |-> "429",
        text |-> StatusMessage(<< "4", "2", "9" >>, insufficient_quota) ],
      [ name |-> "RateLimitError: rate_limit_exceeded", status |-> "429",
        text |-> StatusMessage(<< "4", "2", "9" >>, rate_limit_exceeded) ],
      [ name |-> "InternalServerError", status |-> "500",
        text |-> StatusMessage(<< "5", "0", "0" >>, server_error) ],
      [ name |-> "BadRequestError: context_length_exceeded", status |-> "400",
        text |-> StatusMessage(<< "4", "0", "0" >>, context_length) ],
      [ name |-> "APIConnectionError", status |-> "none",
        text |-> connection_error ] }

ComposerErrorNames == { e.name : e \in ComposerErrors }
ErrorNamed(n) == CHOOSE e \in ComposerErrors : e.name = n

\* the quota/rate-limit condition of the Answer Composer: HTTP 429
QuotaSignal(e) == e.status = "429"

IsQuotaErrorOnlyInsufficient(e) == Contains(e.text, insufficient_quota)

\* "insufficient_quota" in str(api_error) or "429" in str(api_error)
IsQuotaError(e) ==
    Contains(e.text, insufficient_quota) \/ Contains(e.text, << "4", "2", "9" >>)

-----------------------------------------------------------------------------
(* ProviderCache *)

StageErrors ==
    { "embedding model load error", "reranker model load error",
      "encode error", "vector store error", "reranker predict error" }

Faults == { "none" } \cup StageErrors \cup ComposerErrorNames

get_model_reload(cache, written, loadFails) ==
    IF loadFails
    THEN [ cache |-> cache, written |-> written, raised |-> TRUE ]
    ELSE [ cache |-> << written + 1 >>, written |-> written + 1, raised |-> FALSE ]

\* a load that fails leaves the slot as it was
get_model(cache, written, loadFails) ==
    IF cache = NoInstance
    THEN IF loadFails
         THEN [ cache |-> cache, written |-> written, raised |-> TRUE ]
         ELSE [ cache |-> << written + 1 >>, written |-> written + 1,
                raised |-> FALSE ]
    ELSE [ cache |-> cache, written |-> written, raised |-> FALSE ]

get_reranker_model(cache, written, loadFails) ==
    IF cache = NoInstance
    THEN IF loadFails
         THEN [ cache |-> cache, written |-> written, raised |-> TRUE ]
         ELSE [ cache |-> << written + 1 >>, written |-> written + 1,
                raised |-> FALSE ]
    ELSE [ cache |-> cache, written |-> written, raised |-> FALSE ]

-----------------------------------------------------------------------------
(* Ranking, citation headers, context *)

\* collection.query.hybrid(..., limit=limit) and near_vector(..., limit=limit)
HybridSearch(limit) == SubSeq(matches, 1, Min(limit, Len(matches)))
Predict(objects) == SubSeq(rerankScores, 1, Len(objects))

Zip(objects, scores) ==
    [ i \in 1..Min(Len(objects), Len(scores)) |->
        [ obj |-> objects[i], score |-> scores[i] ] ]

InsertDescending(srt, x) ==
    LET k == Cardinality({ i \in 1..Len(srt) : srt[i].score >= x.score })
    IN  SubSeq(srt, 1, k) \o << x >> \o SubSeq(srt, k + 1, Len(srt))

InsertTiesReversed(srt, x) ==
    LET k == Cardinality({ i \in 1..Len(srt) : srt[i].score > x.score })
    IN  SubSeq(srt, 1, k) \o << x >> \o SubSeq(srt, k + 1, Len(srt))

RECURSIVE SortedTiesReversed(_)
SortedTiesReversed(pairs) ==
    IF pairs = << >> THEN << >>
    ELSE InsertTiesReversed(SortedTiesReversed(SubSeq(pairs, 1, Len(pairs) - 1)),
                            pairs[Len(pairs)])

RECURSIVE SortedDescending(_)
SortedDescending(pairs) ==
    IF pairs = << >> THEN << >>
    ELSE InsertDescending(SortedDescending(SubSeq(pairs, 1, Len(pairs) - 1)),
                          pairs[Len(pairs)])

ranked_chunks_ties_reversed(objects, scores) ==
    SortedTiesReversed(Zip(objects, scores))

\* sorted(zip(results.objects, scores), key=lambda x: x[1], reverse=True)
ranked_chunks(objects, scores) == SortedDescending(Zip(objects, scores))

Header(properties) ==
    LET chapter == Get(properties, "chapter", None)
        section == Get(properties, "section", None)
        article == Get(properties, "article", None)
    IN  << "--- ", Str(Get(properties, "title", "Unknown")) >>
        \o (IF Truthy(chapter) THEN << " | ", chapter >> ELSE << >>)
        \o (IF Truthy(section) /\ section # chapter
            THEN << " | ", section >> ELSE << >>)
        \o (IF Truthy(article) THEN << " | Article ", article >> ELSE << >>)

HeaderKeepsSection(properties) ==
    LET chapter == Get(properties, "chapter", None)
        section == Get(properties, "section", None)
        article == Get(properties, "article", None)
    IN  << "--- ", Str(Get(properties, "title", "Unknown")) >>
        \o (IF Truthy(chapter) THEN << " | ", chapter >> ELSE << >>)
        \o (IF Truthy(section) THEN << " | ", section >> ELSE << >>)
        \o (IF Truthy(article) THEN << " | Article ", article >> ELSE << >>)

format_chunk_keeps_section(properties) ==
    HeaderKeepsSection(properties)
    \o << " ---\n", Str(Get(properties, "content", "")) >>

format_chunk(properties) ==
    Header(properties) \o << " ---\n", Str(Get(properties, "content", "")) >>

context_chunks(ranked) ==
    [ i \in 1..Len(ranked) |-> format_chunk(ranked[i].obj) ]

Separator == "\n\n"

RECURSIVE JoinTrailing(_)
JoinTrailing(chunks) ==
    IF chunks = << >> THEN << >>
    ELSE chunks[1] \o << Separator >> \o JoinTrailing(Tail(chunks))

\* "\n\n".join(context_chunks)
RECURSIVE Join(_)
Join(chunks) ==
    IF chunks = << >> THEN << >>
    ELSE IF Len(chunks) = 1 THEN chunks[1]
    ELSE chunks[1] \o << Separator >> \o Join(Tail(chunks))

NoResultsMessage == "No results found. Please try a different query."
QuotaNotice ==
    "OpenAI API quota exceeded. Please check your billing details or try again later.\n\nHere's the raw context that was found:\n\n"
Answer == "response.choices[0].message.content"

-----------------------------------------------------------------------------
(* query_constitution and the local mode of main *)

ZeroCalls ==
    [ encode |-> 0, hybrid |-> 0, near_vector |-> 0, predict |-> 0, composer |-> 0 ]

\* the outcome of a query that raised in its first statement
Raised(fault) ==
    [ kind |-> "error", raised |-> fault, searched |-> FALSE,
      candidates |-> << >>, ranked |-> << >>, context_chunks |-> << >>,
      context |-> << >>, result |-> << >>, printed |-> << >>,
      calls |-> ZeroCalls, composerError |-> "none",
      model |-> NoInstance, reranker |-> NoInstance,
      model_cache |-> model_cache, reranker_model_cache |-> reranker_model_cache,
      writes |-> writes ]

NeverNoResults(objects) == FALSE

\* if not results.objects
NoResults(objects) == objects = << >>

\* the except clause of the inner try
ComposerFailure(s, fault) ==
    IF IsQuotaError(ErrorNamed(fault))
    THEN [ s EXCEPT !.kind = "degraded", !.raised = "none",
                    !.composerError = fault,
                    !.result = << QuotaNotice >> \o s.context ]
    ELSE [ s EXCEPT !.composerError = fault ]

query_constitution_body(fault, limit) ==
    LET gm == get_model(model_cache, writes.model,
                        fault = "embedding model load error")
        gr == get_reranker_model(reranker_model_cache, writes.reranker,
                                 fault = "reranker model load error")
        s1 == [ Raised(fault) EXCEPT !.model = gm.cache, !.model_cache = gm.cache,
                                     !.writes.model = gm.written ]
        s2 == [ s1 EXCEPT !.reranker = gr.cache, !.reranker_model_cache = gr.cache,
                          !.writes.reranker = gr.written ]
        s3 == [ s2 EXCEPT !.calls.encode = 1 ]
        s4 == [ s3 EXCEPT !.calls.hybrid = 1 ]
        objects == HybridSearch(limit)
        s5 == [ s4 EXCEPT !.searched = TRUE, !.candidates = objects ]
        s6 == [ s5 EXCEPT !.calls.predict = 1 ]
        ranked == ranked_chunks(objects, Predict(objects))
        chunks == context_chunks(ranked)
        s7 == [ s6 EXCEPT !.ranked = ranked, !.context_chunks = chunks,
                          !.context = Join(chunks), !.calls.composer = 1 ]
    IN  IF gm.raised THEN s1
        ELSE IF gr.raised THEN s2
        ELSE IF fault = "encode error" THEN s3
        ELSE IF fault = "vector store error" THEN s4
        ELSE IF NoResults(objects)
             THEN [ s5 EXCEPT !.kind = "no_results", !.raised = "none",
                              !.result = << NoResultsMessage >> ]
        ELSE IF fault = "reranker predict error" THEN s6
        ELSE IF fault \in ComposerErrorNames THEN ComposerFailure(s7, fault)
        ELSE [ s7 EXCEPT !.kind = "answer", !.raised = "none",
                         !.result = << Answer >> ]

\* the outer try: print(f"Error in query_constitution: {str(e)}"); raise
query_constitution(fault, limit) ==
    LET r == query_constitution_body(fault, limit)
    IN  IF r.raised = "none" THEN r
        ELSE [ r EXCEPT !.printed = << "Error in query_constitution: ", r.raised >> ]

Dashes60 == "------------------------------------------------------------"
Dashes30 == "------------------------------"

RECURSIVE LocalLines(_)
LocalLines(objects) ==
    IF objects = << >> THEN << >>
    ELSE LET properties == objects[1]
         IN  << "--- ", Str(Get(properties, "title", "Unknown")), " | ",
                Or(Get(properties, "chapter", None), ""), " | Article ",
                Or(Get(properties, "article", None), ""), " ---",
                Str(Get(properties, "content", "")), Dashes30 >>
             \o LocalLines(Tail(objects))

local_query(fault, limit) ==
    LET gm == get_model(model_cache, writes.model,
                        fault = "embedding model load error")
        s1 == [ Raised(fault) EXCEPT !.model = gm.cache, !.model_cache = gm.cache,
                                     !.writes.model = gm.written ]
        s2 == [ s1 EXCEPT !.calls.encode = 1 ]
        s3 == [ s2 EXCEPT !.calls.near_vector = 1 ]
        objects == HybridSearch(limit)
    IN  IF gm.raised THEN s1
        ELSE IF fault = "encode error" THEN s2
        ELSE IF fault = "vector store error" THEN s3
        ELSE [ s3 EXCEPT !.kind = "local", !.raised = "none", !.searched = TRUE,
                         !.candidates = objects,
                         !.printed = << Dashes60 >> \o LocalLines(objects)
                                     \o << Dashes60 >> ]

normal_query(fault, limit) ==
    LET r == query_constitution(fault, limit)
    IN  IF r.raised = "none"
        THEN [ r EXCEPT !.printed = << Dashes60 >> \o r.result \o << Dashes60 >> ]
        ELSE r

RunQueryIgnoringLocal(local, fault, limit) == normal_query(fault, limit)

\* the body of main's try: if args.local ... else ...
RunQuery(local, fault, limit) ==
    IF local THEN local_query(fault, limit) ELSE normal_query(fault, limit)

\* the faults a query can meet: a model loads only while its slot is empty, and
\* local mode stops after the search
FaultPossible(fault) ==
    /\ fault = "embedding model load error" => model_cache = NoInstance
    /\ fault = "reranker model load error" =>
           reranker_model_cache = NoInstance /\ ~args.local
    /\ args.local =>
           fault \in { "none", "embedding model load error", "encode error",
                       "vector store error" }

main_no_except(r) ==
    IF r.raised = "none"
    THEN [ pc |-> "loop", exit |-> "none",
           stdout |-> << "\nQuerying...\n" >> \o r.printed ]
    ELSE [ pc |-> "terminated", exit |-> "uncaught exception",
           stdout |-> << "\nQuerying...\n" >> \o r.printed ]

\* try: ... except Exception as e: print(f"Error: {str(e)}")
main_try(r) ==
    IF r.raised = "none"
    THEN [ pc |-> "loop", exit |-> "none",
           stdout |-> << "\nQuerying...\n" >> \o r.printed ]
    ELSE [ pc |-> "loop", exit |-> "none",
           stdout |-> << "\nQuerying...\n" >> \o r.printed
                      \o << "Error: ", r.raised >> ]

-----------------------------------------------------------------------------
(* Startup *)

Configs ==
    [ WEAVIATE_URL : BOOLEAN, WEAVIATE_API_KEY : BOOLEAN, OPENAI_API_KEY : BOOLEAN,
      connects : BOOLEAN, is_ready : BOOLEAN ]

NothingRead ==
    [ WEAVIATE_URL |-> FALSE, WEAVIATE_API_KEY |-> FALSE, OPENAI_API_KEY |-> FALSE,
      connects |-> FALSE, is_ready |-> FALSE ]

setup_without_ready_check(cfg) ==
    IF ~cfg.WEAVIATE_URL THEN "AssertionError: WEAVIATE_URL is not set"
    ELSE IF ~cfg.WEAVIATE_API_KEY THEN "AssertionError: WEAVIATE_API_KEY is not set"
    ELSE IF ~cfg.OPENAI_API_KEY THEN "AssertionError: OPENAI_API_KEY is not set"
    ELSE IF ~cfg.connects THEN "connect_to_weaviate_cloud raised"
    ELSE "ok"

setup_weaviate_client(cfg) ==
    IF ~cfg.WEAVIATE_URL THEN "AssertionError: WEAVIATE_URL is not set"
    ELSE IF ~cfg.WEAVIATE_API_KEY THEN "AssertionError: WEAVIATE_API_KEY is not set"
    ELSE IF ~cfg.OPENAI_API_KEY THEN "AssertionError: OPENAI_API_KEY is not set"
    ELSE IF ~cfg.connects THEN "connect_to_weaviate_cloud raised"
    ELSE IF ~cfg.is_ready THEN "sys.exit(1)"
    ELSE "ok"

-----------------------------------------------------------------------------
(* The process *)

NoQuery ==
    [ kind |-> "none", raised |-> "none", searched |-> FALSE,
      candidates |-> << >>, ranked |-> << >>, context_chunks |-> << >>,
      context |-> << >>, result |-> << >>, stdout |-> << >>,
      calls |-> ZeroCalls, composerError |-> "none",
      model |-> NoInstance, reranker |-> NoInstance ]

\* after parser.parse_args()
Init ==
    /\ pc = "start"
    /\ exit = "none"
    /\ config = NothingRead
    /\ args \in [ limit : 1..MaxLimit, local : BOOLEAN ]
    /\ query \in { None } \cup Inputs
    /\ matches = << >>
    /\ rerankScores = << >>
    /\ model_cache = NoInstance
    /\ reranker_model_cache = NoInstance
    /\ writes = [ model |-> 0, reranker |-> 0 ]
    /\ queriesDone = 0
    /\ inputsRead = 0
    /\ composerCalls = 0
    /\ failedQueries = 0
    /\ last = NoQuery

\* weaviate_client, openai_api_key = setup_weaviate_client(), against the
\* environment cfg and the collection st
Setup ==
    /\ pc = "start"
    /\ \E cfg \in Configs, st \in Stores :
        LET r == setup_weaviate_client(cfg)
        IN  /\ config' = cfg
            /\ IF r = "ok"
               THEN /\ pc' = "loop"
                    /\ exit' = "none"
                    /\ matches' = st.m
                    /\ rerankScores' = st.s
               ELSE /\ pc' = "terminated"
                    /\ exit' = r
                    /\ UNCHANGED << matches, rerankScores >>
    /\ UNCHANGED << args, query, model_cache, reranker_model_cache, writes,
                    queriesDone, inputsRead, composerCalls, failedQueries,
                    last >>

\* one turn of the loop that ends in sys.exit(0)
MainExit ==
    /\ pc = "loop"
    /\ \E typed \in Inputs :
        LET q == IF Truthy(query) THEN query ELSE typed
        IN  /\ IsExit(q)
            /\ query' = q
            /\ inputsRead' = inputsRead + (IF Truthy(query) THEN 0 ELSE 1)
    /\ pc' = "exited"
    /\ exit' = "sys.exit(0)"
    /\ UNCHANGED << config, args, matches, rerankScores, model_cache,
                    reranker_model_cache, writes, queriesDone, composerCalls,
                    failedQueries, last >>

\* one turn of the loop that runs a query
MainQuery ==
    /\ pc = "loop"
    /\ queriesDone < MaxQueries
    /\ \E typed \in Inputs, fault \in Faults :
        /\ ~IsExit(IF Truthy(query) THEN query ELSE typed)
        /\ FaultPossible(fault)
        /\ \E r \in { RunQuery(args.local, fault, args.limit) } :
            \E h \in { main_try(r) } :
                /\ inputsRead' = inputsRead + (IF Truthy(query) THEN 0 ELSE 1)
                /\ pc' = h.pc
                /\ exit' = h.exit
                /\ query' = IF h.pc = "loop" THEN None
                            ELSE IF Truthy(query) THEN query ELSE typed
                /\ model_cache' = r.model_cache
                /\ reranker_model_cache' = r.reranker_model_cache
                /\ writes' = r.writes
                /\ composerCalls' = composerCalls + r.calls.composer
                /\ failedQueries' =
                       failedQueries + (IF r.raised = "none" THEN 0 ELSE 1)
                /\ last' = [ kind |-> r.kind, raised |-> r.raised,
                             searched |-> r.searched, candidates |-> r.candidates,
                             ranked |-> r.ranked,
                             context_chunks |-> r.context_chunks,
                             context |-> r.context, result |-> r.result,
                             stdout |-> h.stdout, calls |-> r.calls,
                             composerError |-> r.composerError,
                             model |-> r.model, reranker |-> r.reranker ]
    /\ queriesDone' = queriesDone + 1
    /\ UNCHANGED << config, args, matches, rerankScores >>

Next == Setup \/ MainExit \/ MainQuery

Spec == Init /\ [][Next]_vars

-----------------------------------------------------------------------------
(* Properties *)

Present(x) == x # None /\ x # ""

\* the query reached "\n\n".join(context_chunks)
Assembled == ~args.local /\ last.calls.composer = 1

\* the hybrid-search position of the candidate whose passage closes chunk
CandidateOf(chunk) ==
    CHOOSE j \in 1..Len(last.candidates) :
        last.candidates[j].content = chunk[Len(chunk)]

ContextOrder ==
    [ i \in 1..Len(last.context_chunks) |->
        last.candidates[CandidateOf(last.context_chunks[i])].id ]

\* C1: the passages stand in the context in non-increasing order of reranker
\* score, and passages of equal score keep their hybrid-search order.
C1_RankedOrderStable ==
    (Assembled /\ last.candidates # << >>) =>
        /\ Len(last.context_chunks) = Len(last.candidates)
        /\ \A i, k \in 1..Len(last.context_chunks) :
            i < k =>
                LET a == CandidateOf(last.context_chunks[i])
                    b == CandidateOf(last.context_chunks[k])
                IN  \/ rerankScores[a] > rerankScores[b]
                    \/ rerankScores[a] = rerankScores[b] /\ a < b

C1_Witness ==
    /\ last.kind = "answer"
    /\ Len(last.candidates) = 3
    /\ rerankScores = << 2, 9, 5 >>
    /\ ContextOrder = << "candidate2", "candidate3", "candidate1" >>

\* C2: an empty hybrid-search result gives the "no results" sentinel as a
\* normal return value, with no reranker scoring and no Answer Composer call
\* in that query.
C2_EmptyResultSentinel ==
    (~args.local /\ last.searched /\ last.candidates = << >>) =>
        /\ last.kind = "no_results"
        /\ last.raised = "none"
        /\ last.result = << NoResultsMessage >>
        /\ last.calls.predict = 0
        /\ last.calls.composer = 0

C2_Witness ==
    /\ ~args.local
    /\ last.searched
    /\ last.candidates = << >>
    /\ last.kind = "no_results"
    /\ queriesDone = 2

\* C3: every citation header lists title, chapter, section, article in that
\* order, leaving out section exactly when it is absent or equal to chapter,
\* and chapter and article exactly when they are absent.
C3_CitationHeader ==
    Assembled =>
        \A i \in 1..Len(last.context_chunks) :
            LET c == last.context_chunks[i]
                p == last.ranked[i].obj
                h == SubSeq(c, 1, Len(c) - 2)
            IN  /\ c[Len(c) - 1] = " ---\n"
                /\ c[Len(c)] = p.content
                /\ h[1] = "--- "
                /\ p.title \notin { Missing, None } => h[2] = p.title
                /\ SubSeq(h, 3, Len(h)) =
                       (IF Present(p.chapter)
                        THEN << " | ", p.chapter >> ELSE << >>)
                       \o (IF Present(p.section) /\ p.section # p.chapter
                           THEN << " | ", p.section >> ELSE << >>)
                       \o (IF Present(p.article)
                           THEN << " | Article ", p.article >> ELSE << >>)

C3_Witness ==
    /\ Assembled
    /\ Len(last.ranked) = 1
    /\ last.ranked[1].obj.section = "Chapter 2: Rights"
    /\ last.ranked[1].obj.chapter = "Chapter 2: Rights"
    /\ last.context_chunks[1] =
           << "--- ", "ROC Constitution", " | ", "Chapter 2: Rights",
              " | Article ", "8", " ---\n", "text 1" >>

\* where block k starts in a context of blocks with one separator between them
RECURSIVE BlockStart(_, _)
BlockStart(chunks, k) ==
    IF k = 1 THEN 1 ELSE BlockStart(chunks, k - 1) + Len(chunks[k - 1]) + 1

SeparatorCount ==
    Cardinality({ i \in 1..Len(last.context) : last.context[i] = Separator })

\* C4: N >= 1 candidates give a context of exactly N blocks, one per
\* candidate, with one blank-line separator between consecutive blocks, N-1 in
\* all, and none before the first block or after the last.
C4_BlocksAndSeparators ==
    (Assembled /\ last.candidates # << >>) =>
        LET n == Len(last.candidates)
            chunks == last.context_chunks
        IN  /\ Len(chunks) = n
            /\ \A j \in 1..n :
                Cardinality({ i \in 1..Len(chunks) :
                    chunks[i][Len(chunks[i])] = last.candidates[j].content }) = 1
            /\ Len(last.context) = BlockStart(chunks, n) + Len(chunks[n]) - 1
            /\ \A k \in 1..n :
                /\ SubSeq(last.context, BlockStart(chunks, k),
                          BlockStart(chunks, k) + Len(chunks[k]) - 1) = chunks[k]
                /\ k > 1 => last.context[BlockStart(chunks, k) - 1] = Separator
            /\ SeparatorCount = n - 1

C4_Witness ==
    /\ Assembled
    /\ Len(last.candidates) = 3
    /\ Len(last.context_chunks) = 3
    /\ SeparatorCount = 2

\* C5: a quota/rate-limit signal of the Answer Composer does not raise; the
\* query returns the notice followed by the whole assembled context.
C5_QuotaDegrades ==
    (last.composerError # "none" /\ QuotaSignal(ErrorNamed(last.composerError))) =>
        /\ last.raised = "none"
        /\ last.kind = "degraded"
        /\ last.context # << >>
        /\ last.result = << QuotaNotice >> \o last.context
        /\ last.context = Join(last.context_chunks)
        /\ last.stdout = << "\nQuerying...\n", Dashes60 >> \o last.result
                         \o << Dashes60 >>

C5_Witness ==
    /\ last.composerError = "RateLimitError: rate_limit_exceeded"
    /\ last.kind = "degraded"
    /\ Len(last.candidates) = 3
    /\ last.result = << QuotaNotice >> \o last.context

\* C6: every Answer Composer failure that is not a quota/rate-limit signal
\* leaves query_constitution as an error, with no degraded response and no
\* answer returned.
C6_OtherFailurePropagates ==
    (last.composerError # "none" /\ ~QuotaSignal(ErrorNamed(last.composerError))) =>
        /\ last.raised = last.composerError
        /\ last.kind = "error"
        /\ last.result = << >>

\* C7: a query that fails is caught and reported in its turn of the loop, and
\* the loop stands at its top again, about to read the next query; the session
\* ends only by the exit command.
C7_FailureKeepsSession ==
    /\ [](pc = "terminated" => queriesDone = 0 /\ failedQueries = 0)
    /\ [](pc = "exited" => exit = "sys.exit(0)" /\ IsExit(query))
    /\ [][ queriesDone' = queriesDone + 1 =>
            /\ pc' = "loop"
            /\ exit' = "none"
            /\ query' = None
            /\ last'.raised # "none" =>
                /\ failedQueries' = failedQueries + 1
                /\ Len(last'.stdout) >= 2
                /\ SubSeq(last'.stdout, Len(last'.stdout) - 1, Len(last'.stdout))
                       = << "Error: ", last'.raised >> ]_vars

C7_Witness ==
    /\ failedQueries >= 1
    /\ last.kind = "answer"
    /\ pc = "loop"

StartupSucceeded ==
    /\ config.WEAVIATE_URL
    /\ config.WEAVIATE_API_KEY
    /\ config.OPENAI_API_KEY
    /\ config.connects
    /\ config.is_ready

\* C8: no query is read or run unless startup succeeded; a missing endpoint
\* or key, or a failed readiness check, ends the process in
\* setup_weaviate_client before the loop.
C8_NoQueryWithoutStartup ==
    /\ (pc \in { "loop", "exited" } \/ queriesDone > 0 \/ inputsRead > 0)
           => StartupSucceeded
    /\ (pc # "start" /\ ~StartupSucceeded) =>
           /\ pc = "terminated"
           /\ exit \notin { "none", "sys.exit(0)" }
           /\ queriesDone = 0
           /\ inputsRead = 0
           /\ last = NoQuery

C8_Witness ==
    /\ pc = "terminated"
    /\ config.WEAVIATE_URL /\ config.WEAVIATE_API_KEY /\ config.OPENAI_API_KEY
    /\ config.connects
    /\ ~config.is_ready
    /\ exit = "sys.exit(1)"
    /\ query = "What branch handles judicial review?"

\* C9: in local mode the Answer Composer is never called in the session; a
\* query embeds, runs one nearest-neighbour search and prints the passages.
C9_LocalNeverComposes ==
    args.local =>
        /\ composerCalls = 0
        /\ last.calls.composer = 0
        /\ last.calls.predict = 0
        /\ last.calls.hybrid = 0
        /\ last.kind \in { "none", "local", "error" }
        /\ last.kind = "local" =>
            /\ last.calls.encode = 1
            /\ last.calls.near_vector = 1
            /\ last.stdout = << "\nQuerying...\n", Dashes60 >>
                             \o LocalLines(last.candidates) \o << Dashes60 >>

C9_Witness ==
    /\ args.local
    /\ queriesDone = 2
    /\ last.kind = "local"
    /\ Len(last.candidates) = 2

\* C10: each cache slot is written once, at the first use that loads, and
\* from then on holds and returns the same instance.
C10_CacheWrittenOnce ==
    /\ [](/\ writes.model <= 1
          /\ writes.reranker <= 1
          /\ (model_cache = NoInstance) <=> (writes.model = 0)
          /\ (reranker_model_cache = NoInstance) <=> (writes.reranker = 0)
          /\ queriesDone = 0 =>
                model_cache = NoInstance /\ reranker_model_cache = NoInstance
          /\ last.model # NoInstance => last.model = model_cache
          /\ last.reranker # NoInstance => last.reranker = reranker_model_cache)
    /\ [][ /\ model_cache # NoInstance => model_cache' = model_cache
           /\ reranker_model_cache # NoInstance =>
                  reranker_model_cache' = reranker_model_cache ]_vars

C10_Witness ==
    /\ queriesDone = 2
    /\ failedQueries = 1
    /\ writes = [ model |-> 1, reranker |-> 1 ]
    /\ model_cache = << 1 >>
    /\ reranker_model_cache = << 1 >>
    /\ last.model = << 1 >>
    /\ last.reranker = << 1 >>

====
